---- MODULE Spec2Model ----
(***************************************************************************)
(* Popper Poi site interactions (src/script.js): the page's elements as    *)
(* the script caches them, the listeners the script registers at startup,  *)
(* and one action per browser event the page can deliver.                  *)
(*                                                                         *)
(* The page is static: the NodeLists cached at startup are the page's      *)
(* .nav-link, .mobile-menu a and .delivery-btn elements for the whole      *)
(* life of the page.                                                       *)
(***************************************************************************)
EXTENDS Integers, Sequences, FiniteSets, TLC

\* ------------------------------------------------------------------ bounds
MaxNavLinks == 2
MaxMobileNavLinks == 1
MaxDeliveryBtns == 1

\* ------------------------------------------------------ program constants
MdBreakpoint == 768
ShadowBase == 8
ShadowScale == 10
ShadowRest == 12

FadeIn == "fadeIn 0.25s ease"
DynamicTail == "16px 16px 20px rgba(0,0,0,0.3)"
TouchTail == "12px 12px 20px rgba(0,0,0,0.2)"
OrderAlert == "POPPER POI - order received! (demo) your street feast is on the way."
FranchiseAlert == "Franchise inquiry: franchise@popperpoi.com"

\* ------------------------------------------------------------ environment
\* window widths: just below the md breakpoint, at it, and a desktop width
Widths == {MdBreakpoint - 1, MdBreakpoint, 2 * MdBreakpoint}
Heights == {600}
Hrefs == {"#", "#menu"}

\* null: what getElementById / querySelector return for an absent element
Null == [null |-> TRUE]
\* the value of a handler that dereferenced null
TypeError == [error |-> "TypeError"]

VARIABLES
  pc,              \* "loading" before the script ran, "ready" after
  touch,           \* 'ontouchstart' in window
  hoverMatches,    \* window.matchMedia('(hover: hover)').matches
  innerWidth,      \* window.innerWidth
  innerHeight,     \* window.innerHeight
  mobileBtn,       \* Null or the hamburger button
  mobileMenu,      \* Null or [hidden, animation]
  navLinks,        \* sequence of [href, active]: the .nav-link elements
  mobileNavLinks,  \* number of '.mobile-menu a' elements
  deliveryBtns,    \* number of '.delivery-btn' elements
  heroDiv,         \* Null or [boxShadow]
  footerYearSpan,  \* Null or [innerHTML]
  franchiseBtn,    \* Null or the franchise button
  listeners,       \* the listeners registered by the script
  thrown,          \* an uncaught TypeError was raised
  dialog,          \* message of the alert the last handler showed ("" if none)
  dclFired,        \* DOMContentLoaded was delivered
  last,            \* the last event delivered: [type, target]
  repeated,        \* the event before the last one was the same event
  prevMenu,        \* mobileMenu before the last event was delivered
  prev2Menu,       \* mobileMenu before the last two events, when they were the same
                   \* event (otherwise mobileMenu before the last one)
  changed          \* the elements whose class list, inline style or content the
                   \* last step changed

vars == <<pc, touch, hoverMatches, innerWidth, innerHeight, mobileBtn, mobileMenu,
          navLinks, mobileNavLinks, deliveryBtns, heroDiv, footerYearSpan,
          franchiseBtn, listeners, thrown, dialog, dclFired, last, repeated,
          prevMenu, prev2Menu, changed>>

page == <<touch, hoverMatches, mobileBtn, mobileNavLinks, deliveryBtns, franchiseBtn>>

\* --------------------------------------------------------------- helpers
RECURSIVE GCD(_, _)
GCD(a, b) == IF b = 0 THEN a ELSE GCD(b, a % b)

\* the number n/d in lowest terms
Frac(n, d) == <<n \div GCD(n, d), d \div GCD(n, d)>>

Px(n) == <<n, 1>>

Button == [tag |-> "button"]
Event(type, target) == [type |-> type, target |-> target]
NoEvent == Event("none", 0)

\* inline box-shadow values: first shadow's x and y offsets, then the second shadow
NoShadow == [x |-> Px(0), y |-> Px(0), tail |-> ""]
RestShadow == [x |-> Px(ShadowRest), y |-> Px(ShadowRest), tail |-> DynamicTail]
TouchShadow == [x |-> Px(ShadowBase), y |-> Px(ShadowBase), tail |-> TouchTail]

\* ------------------------------------------------------- handler bodies

\* variant: the toggle keeps whatever inline animation the menu had
mobileBtnClick_KeepAnimation(menu) ==
  IF menu = Null THEN TypeError
  ELSE [menu EXCEPT !.hidden = ~menu.hidden,
                    !.animation = IF menu.hidden THEN FadeIn ELSE @]

\* hamburger click (registered only when button and menu exist)
mobileBtnClick(menu) ==
  IF menu = Null THEN TypeError
  ELSE LET toggled == [menu EXCEPT !.hidden = ~menu.hidden]
       IN  IF ~toggled.hidden
           THEN [toggled EXCEPT !.animation = FadeIn]
           ELSE [toggled EXCEPT !.animation = ""]

removeActiveClass(links) ==
  [i \in DOMAIN links |-> [links[i] EXCEPT !.active = FALSE]]

\* variant: the clicked link is marked without clearing the others
navLinkClick_NoRemove(links, i) ==
  [links EXCEPT ![i].active = TRUE]

\* variant: the marker is toggled on the clicked link
navLinkClick_Toggle(links, i) ==
  [removeActiveClass(links) EXCEPT ![i].active = ~links[i].active]

\* click on the i-th .nav-link
navLinkClick(links, i) ==
  [removeActiveClass(links) EXCEPT ![i].active = TRUE]

\* variant: the menu is hidden only when it is open, as the resize handler does
mobileNavLinkClick_OnlyIfOpen(menu) ==
  IF menu # Null /\ ~menu.hidden
  THEN [menu EXCEPT !.hidden = TRUE, !.animation = ""]
  ELSE menu

\* variant: no null guard around the menu
mobileNavLinkClick_NoGuard(menu) ==
  IF menu = Null THEN TypeError
  ELSE [menu EXCEPT !.hidden = TRUE, !.animation = ""]

\* click on a link inside the mobile menu
mobileNavLinkClick(menu) ==
  IF menu # Null
  THEN [menu EXCEPT !.hidden = TRUE, !.animation = ""]
  ELSE menu

\* mousemove over the hero image
heroMousemove(hero, clientX, clientY, w, h) ==
  IF hero = Null THEN TypeError
  ELSE [hero EXCEPT !.boxShadow =
          [x |-> Frac(ShadowBase * w + ShadowScale * clientX, w),
           y |-> Frac(ShadowBase * h + ShadowScale * clientY, h),
           tail |-> DynamicTail]]

heroMouseleave(hero) ==
  IF hero = Null THEN TypeError
  ELSE [hero EXCEPT !.boxShadow = RestShadow]

\* window resize
resizeHandler(menu, w) ==
  IF w >= MdBreakpoint
  THEN IF menu # Null /\ ~menu.hidden
       THEN [menu EXCEPT !.hidden = TRUE, !.animation = ""]
       ELSE menu
  ELSE menu

\* footer year patch: replace('2024', currentYear)
patchYear(footer) ==
  IF footer # Null
  THEN [footer EXCEPT !.innerHTML = IF @ = "(c) 2024" THEN "(c) currentYear" ELSE @]
  ELSE footer

\* touch device optimization: removeEventListener is given a fresh function, which
\* matches no registered listener, so the listener set is returned as it was
touchRemoveListener(ls, hero) == ls

touchShadow(hero, isTouch) ==
  IF isTouch /\ hero # Null
  THEN [hero EXCEPT !.boxShadow = TouchShadow]
  ELSE hero

\* the listeners registered before the footer patch
earlyListeners(btn, menu, hero, hover) ==
  (IF btn # Null /\ menu # Null THEN {"mobileBtn.click"} ELSE {})
  \cup {"navLinks.click", "mobileNavLinks.click", "deliveryBtns.click"}
  \cup (IF hero # Null /\ hover
        THEN {"heroDiv.mousemove", "heroDiv.mouseleave"} ELSE {})

\* the listeners registered between the footer patch and the touch section
midListeners(fran) ==
  {"window.resize"} \cup (IF fran # Null THEN {"franchiseBtn.click"} ELSE {})

\* DOMContentLoaded: menu part
dclMenu(menu) ==
  IF menu # Null /\ ~menu.hidden
  THEN [menu EXCEPT !.hidden = TRUE]
  ELSE menu

\* document.querySelector('.nav-link[href="#"]'): index of the first match, 0 if none
homeLink(links) ==
  IF \E i \in DOMAIN links : links[i].href = "#"
  THEN CHOOSE i \in DOMAIN links :
         /\ links[i].href = "#"
         /\ \A j \in DOMAIN links : links[j].href = "#" => i <= j
  ELSE 0

\* variant: the last .nav-link with href="#" is taken for the home link
dclLinks_LastMatch(links) ==
  IF homeLink(links) # 0
  THEN LET lastMatch == CHOOSE i \in DOMAIN links :
                          /\ links[i].href = "#"
                          /\ \A j \in DOMAIN links : links[j].href = "#" => j <= i
       IN  [removeActiveClass(links) EXCEPT ![lastMatch].active = TRUE]
  ELSE links

\* variant: the home link is marked without clearing the others
dclLinks_NoRemove(links) ==
  IF homeLink(links) # 0
  THEN [links EXCEPT ![homeLink(links)].active = TRUE]
  ELSE links

\* DOMContentLoaded: nav part
dclLinks(links) ==
  IF homeLink(links) # 0
  THEN [removeActiveClass(links) EXCEPT ![homeLink(links)].active = TRUE]
  ELSE links

\* ------------------------------------------------------------- initial
LinkElems == [href : Hrefs, active : BOOLEAN]
MenuElems == [hidden : BOOLEAN, animation : {""}]

InitCommon ==
  /\ pc = "loading"
  /\ touch \in BOOLEAN
  /\ hoverMatches \in BOOLEAN
  /\ innerWidth = MdBreakpoint - 1   \* loaded on a phone; Resize reaches every width
  /\ innerHeight \in Heights
  /\ listeners = {}
  /\ thrown = FALSE
  /\ dialog = ""
  /\ dclFired = FALSE
  /\ last = NoEvent
  /\ repeated = FALSE
  /\ prevMenu = mobileMenu
  /\ prev2Menu = mobileMenu
  /\ changed = {}

\* the page with all its elements
InitFull ==
  /\ mobileBtn = Button
  /\ mobileMenu \in MenuElems
  /\ navLinks \in [1..MaxNavLinks -> LinkElems]
  /\ mobileNavLinks = MaxMobileNavLinks
  /\ deliveryBtns = MaxDeliveryBtns
  /\ heroDiv = [boxShadow |-> NoShadow]
  /\ footerYearSpan = [innerHTML |-> "(c) 2024"]
  /\ franchiseBtn = Button
  /\ InitCommon

\* a page from which any of the looked-up elements may be missing
InitAbsent ==
  /\ mobileBtn \in {Null, Button}
  /\ mobileMenu \in {Null, [hidden |-> TRUE, animation |-> ""]}
  /\ navLinks \in {<<>>, [i \in 1..MaxNavLinks |->
                           [href |-> IF i = 1 THEN "#" ELSE "#menu", active |-> i = 1]]}
  /\ mobileNavLinks \in {0, MaxMobileNavLinks}
  /\ deliveryBtns \in {0, MaxDeliveryBtns}
  /\ heroDiv \in {Null, [boxShadow |-> NoShadow]}
  /\ footerYearSpan \in {Null, [innerHTML |-> "(c) 2024"]}
  /\ franchiseBtn \in {Null, Button}
  /\ InitCommon

Init == InitFull \/ InitAbsent

\* -------------------------------------------------------------- actions

\* the elements a step changed
El(name, i) == <<name, i>>
ChangedElements ==
  (IF mobileMenu' # mobileMenu THEN {El("mobileMenu", 0)} ELSE {})
  \cup (IF heroDiv' # heroDiv THEN {El("heroDiv", 0)} ELSE {})
  \cup (IF footerYearSpan' # footerYearSpan THEN {El("footerYearSpan", 0)} ELSE {})
  \cup {El("navLink", i) : i \in {j \in DOMAIN navLinks : navLinks'[j] # navLinks[j]}}

\* the script's top-level run; an uncaught TypeError ends it where it is raised
Startup ==
  /\ pc = "loading"
  /\ pc' = "ready"
  /\ LET early == earlyListeners(mobileBtn, mobileMenu, heroDiv, hoverMatches)
         footer == patchYear(footerYearSpan)
         mid == early \cup midListeners(franchiseBtn)
         kept == IF touch /\ heroDiv # Null THEN touchRemoveListener(mid, heroDiv) ELSE mid
         hero == touchShadow(heroDiv, touch)
     IN  IF footer = TypeError
         THEN /\ thrown' = TRUE
              /\ listeners' = early
              /\ UNCHANGED <<footerYearSpan, heroDiv>>
         ELSE IF hero = TypeError
         THEN /\ thrown' = TRUE
              /\ listeners' = kept
              /\ footerYearSpan' = footer
              /\ UNCHANGED heroDiv
         ELSE /\ listeners' = kept \cup {"window.DOMContentLoaded"}
              /\ footerYearSpan' = footer
              /\ heroDiv' = hero
              /\ UNCHANGED thrown
  /\ last' = Event("startup", 0)
  /\ UNCHANGED <<page, innerWidth, innerHeight, mobileMenu, navLinks, dialog, dclFired,
                 repeated, prevMenu, prev2Menu>>
  /\ changed' = ChangedElements

\* an event was delivered; r is the menu its handler computed
Deliver(ev, r) ==
  /\ last' = ev
  /\ repeated' = (last = ev)
  /\ prevMenu' = mobileMenu
  /\ prev2Menu' = IF last = ev THEN prevMenu ELSE mobileMenu
  /\ IF r = TypeError
     THEN thrown' = TRUE /\ UNCHANGED mobileMenu
     ELSE mobileMenu' = r /\ UNCHANGED thrown

HamburgerClick ==
  /\ pc = "ready"
  /\ mobileBtn # Null
  /\ Deliver(Event("mobileBtn.click", 0),
             IF "mobileBtn.click" \in listeners THEN mobileBtnClick(mobileMenu) ELSE mobileMenu)
  /\ dialog' = ""
  /\ UNCHANGED <<pc, page, innerWidth, innerHeight, navLinks, heroDiv, footerYearSpan,
                 listeners, dclFired>>
  /\ changed' = ChangedElements

NavLinkClick ==
  /\ pc = "ready"
  /\ \E i \in DOMAIN navLinks :
       /\ navLinks' = IF "navLinks.click" \in listeners THEN navLinkClick(navLinks, i) ELSE navLinks
       /\ Deliver(Event("navLinks.click", i), mobileMenu)
  /\ dialog' = ""
  /\ UNCHANGED <<pc, page, innerWidth, innerHeight, heroDiv, footerYearSpan,
                 listeners, dclFired>>
  /\ changed' = ChangedElements

MobileNavLinkClick ==
  /\ pc = "ready"
  /\ \E j \in 1..mobileNavLinks :
       Deliver(Event("mobileNavLinks.click", 0),
               IF "mobileNavLinks.click" \in listeners
               THEN mobileNavLinkClick(mobileMenu) ELSE mobileMenu)
  /\ dialog' = ""
  /\ UNCHANGED <<pc, page, innerWidth, innerHeight, navLinks, heroDiv, footerYearSpan,
                 listeners, dclFired>>
  /\ changed' = ChangedElements

DeliveryBtnClick ==
  /\ pc = "ready"
  /\ \E k \in 1..deliveryBtns :
       Deliver(Event("deliveryBtns.click", 0), mobileMenu)
  /\ dialog' = IF "deliveryBtns.click" \in listeners THEN OrderAlert ELSE ""
  /\ UNCHANGED <<pc, page, innerWidth, innerHeight, navLinks, heroDiv, footerYearSpan,
                 listeners, dclFired>>
  /\ changed' = ChangedElements

FranchiseBtnClick ==
  /\ pc = "ready"
  /\ franchiseBtn # Null
  /\ Deliver(Event("franchiseBtn.click", 0), mobileMenu)
  /\ dialog' = IF "franchiseBtn.click" \in listeners THEN FranchiseAlert ELSE ""
  /\ UNCHANGED <<pc, page, innerWidth, innerHeight, navLinks, heroDiv, footerYearSpan,
                 listeners, dclFired>>
  /\ changed' = ChangedElements

\* pointer positions over the window: a corner, the centre, the opposite corner
Pointer(w, h) == {<<0, 0>>, <<w \div 2, h \div 2>>, <<w, h>>}

HeroMousemove ==
  /\ pc = "ready"
  /\ heroDiv # Null
  /\ \E p \in Pointer(innerWidth, innerHeight) :
       heroDiv' = IF "heroDiv.mousemove" \in listeners
                  THEN heroMousemove(heroDiv, p[1], p[2], innerWidth, innerHeight)
                  ELSE heroDiv
  /\ Deliver(Event("heroDiv.mousemove", 0), mobileMenu)
  /\ dialog' = ""
  /\ UNCHANGED <<pc, page, innerWidth, innerHeight, navLinks, footerYearSpan,
                 listeners, dclFired>>
  /\ changed' = ChangedElements

HeroMouseleave ==
  /\ pc = "ready"
  /\ heroDiv # Null
  /\ heroDiv' = IF "heroDiv.mouseleave" \in listeners THEN heroMouseleave(heroDiv) ELSE heroDiv
  /\ Deliver(Event("heroDiv.mouseleave", 0), mobileMenu)
  /\ dialog' = ""
  /\ UNCHANGED <<pc, page, innerWidth, innerHeight, navLinks, footerYearSpan,
                 listeners, dclFired>>
  /\ changed' = ChangedElements

Resize ==
  /\ pc = "ready"
  /\ \E w \in Widths :
       /\ innerWidth' = w
       /\ Deliver(Event("window.resize", w),
                  IF "window.resize" \in listeners THEN resizeHandler(mobileMenu, w) ELSE mobileMenu)
  /\ dialog' = ""
  /\ UNCHANGED <<pc, page, innerHeight, navLinks, heroDiv, footerYearSpan,
                 listeners, dclFired>>
  /\ changed' = ChangedElements

DOMContentLoaded ==
  /\ pc = "ready"
  /\ ~dclFired
  /\ dclFired' = TRUE
  /\ navLinks' = IF "window.DOMContentLoaded" \in listeners THEN dclLinks(navLinks) ELSE navLinks
  /\ Deliver(Event("window.DOMContentLoaded", 0),
             IF "window.DOMContentLoaded" \in listeners THEN dclMenu(mobileMenu) ELSE mobileMenu)
  /\ dialog' = ""
  /\ UNCHANGED <<pc, page, innerWidth, innerHeight, heroDiv, footerYearSpan, listeners>>
  /\ changed' = ChangedElements

Next ==
  \/ Startup
  \/ HamburgerClick
  \/ NavLinkClick
  \/ MobileNavLinkClick
  \/ DeliveryBtnClick
  \/ FranchiseBtnClick
  \/ HeroMousemove
  \/ HeroMouseleave
  \/ Resize
  \/ DOMContentLoaded

Spec == Init /\ [][Next]_vars

\* ------------------------------------------------ other starting pages
ActiveLinks == {i \in DOMAIN navLinks : navLinks[i].active}

\* a page on which at most one .nav-link carries 'active-nav'
InitOneActive == Init /\ Cardinality(ActiveLinks) <= 1
SpecOneActive == InitOneActive /\ [][Next]_vars

\* a page whose mobile menu is hidden with an empty inline animation
InitMenuClosed == Init /\ (mobileMenu # Null => mobileMenu.hidden /\ mobileMenu.animation = "")
SpecMenuClosed == InitMenuClosed /\ [][Next]_vars

\* --------------------------------------------------------------- claims
Is(type) == last.type = type
MenuClosed(menu) == menu.hidden /\ menu.animation = ""
\* the two forms the hamburger handler itself leaves the menu in
Canonical(menu) == menu.animation = (IF menu.hidden THEN "" ELSE FadeIn)
NavChanged == {e \in changed : e[1] = "navLink"}
HamburgerRan == Is("mobileBtn.click") /\ "mobileBtn.click" \in listeners

\* C1: starting from a page with at most one marked .nav-link, at most one .nav-link
\* carries 'active-nav' in every reachable state.
C1_ActiveExclusive == Cardinality(ActiveLinks) <= 1

\* the marker was put on the home link at load and a click then moved it to link 2
C1_Witness ==
  /\ dclFired
  /\ Is("navLinks.click") /\ last.target = 2
  /\ homeLink(navLinks) = 1
  /\ El("navLink", 1) \in changed /\ El("navLink", 2) \in changed
  /\ ActiveLinks = {2}

\* C2 (as stated): two consecutive hamburger clicks leave the menu, hidden flag and
\* inline animation, as it was before the first click, whatever state it was in.
C2_ToggleTwiceRestores ==
  (HamburgerRan /\ repeated) => mobileMenu = prev2Menu

\* C2 (amended): two consecutive hamburger clicks restore the hidden flag, and restore
\* the inline animation too when the menu was in a form the handler produces (hidden
\* with no animation, or visible with the fade-in).
C2_ToggleTwiceRestoresHidden ==
  (HamburgerRan /\ repeated) =>
     /\ mobileMenu.hidden = prev2Menu.hidden
     /\ Canonical(prev2Menu) => mobileMenu = prev2Menu

\* two consecutive clicks on a menu that started visible without inline animation:
\* the flag is back, the animation is not
C2_Witness ==
  /\ HamburgerRan /\ repeated
  /\ ~prev2Menu.hidden /\ prev2Menu.animation = ""
  /\ ~mobileMenu.hidden /\ mobileMenu.animation = FadeIn

\* C3 (as stated): every handler changes at most one element's class list or inline
\* style.
C3_OneElementPerHandler ==
  (pc = "ready" /\ ~Is("startup")) => Cardinality(changed) <= 1

\* C3 (amended): every handler other than the desktop nav-link click and
\* DOMContentLoaded changes at most one element; a desktop nav-link click changes
\* only .nav-link elements, at most the clicked one and those that carried the
\* marker (so all changed links but the clicked one end unmarked); DOMContentLoaded
\* changes only the mobile menu and .nav-link elements, of which all but the home
\* link end unmarked.
C3_HandlerFrame ==
  /\ (pc = "ready" /\ ~Is("startup") /\ ~Is("navLinks.click") /\ ~Is("window.DOMContentLoaded"))
        => Cardinality(changed) <= 1
  /\ Is("navLinks.click") =>
        /\ changed = NavChanged
        /\ \A e \in changed : e[2] # last.target => ~navLinks[e[2]].active
  /\ Is("window.DOMContentLoaded") =>
        /\ changed \subseteq NavChanged \cup {El("mobileMenu", 0)}
        /\ \A e \in NavChanged : e[2] # homeLink(navLinks) => ~navLinks[e[2]].active

\* a desktop nav-link click that changed two links
C3_Witness ==
  /\ Is("navLinks.click")
  /\ Cardinality(changed) = 2

\* C4: after a resize observed at width >= 768 the menu is hidden with an empty inline
\* animation; a resize observed below 768 leaves the menu as it was.
C4_ResizeCloses ==
  (Is("window.resize") /\ mobileMenu # Null) =>
     IF last.target >= MdBreakpoint
     THEN MenuClosed(mobileMenu)
     ELSE mobileMenu = prevMenu

\* C5: after a click on a mobile nav link the menu is hidden with an empty inline
\* animation and the desktop marker is where it was.
C5_MobileLinkCloses ==
  Is("mobileNavLinks.click") =>
     /\ mobileMenu # Null => MenuClosed(mobileMenu)
     /\ NavChanged = {}

\* a mobile nav-link click on a menu that was hidden but still carried the fade-in
C5_Witness ==
  /\ Is("mobileNavLinks.click")
  /\ mobileMenu # Null /\ prevMenu.hidden /\ prevMenu.animation = FadeIn
  /\ MenuClosed(mobileMenu)
  /\ ActiveLinks # {}

\* C6: right after DOMContentLoaded the menu is hidden, the home link carries
\* 'active-nav' and no other .nav-link does.
C6_LoadInit ==
  Is("window.DOMContentLoaded") =>
     /\ mobileMenu # Null => mobileMenu.hidden
     /\ homeLink(navLinks) # 0 => ActiveLinks = {homeLink(navLinks)}

\* DOMContentLoaded after user events, on an open menu, with the home link second in
\* the document and another link marked before
C6_Witness ==
  /\ Is("window.DOMContentLoaded")
  /\ mobileMenu # Null /\ ~prevMenu.hidden /\ mobileMenu.hidden
  /\ homeLink(navLinks) = 2
  /\ changed = {El("mobileMenu", 0), El("navLink", 1), El("navLink", 2)}

\* C7: whatever elements are absent, startup and every handler end without a
\* TypeError, and the listeners that act on an element unguarded are registered only
\* when the element exists.
C7_AbsentElementsSafe ==
  /\ ~thrown
  /\ pc = "ready" =>
       /\ "mobileBtn.click" \in listeners => (mobileBtn # Null /\ mobileMenu # Null)
       /\ "heroDiv.mousemove" \in listeners => heroDiv # Null
       /\ "heroDiv.mouseleave" \in listeners => heroDiv # Null
       /\ "franchiseBtn.click" \in listeners => franchiseBtn # Null
       /\ "window.DOMContentLoaded" \in listeners

\* a mobile nav link clicked on a page without the menu, the hero image and the footer
C7_Witness ==
  /\ Is("mobileNavLinks.click")
  /\ mobileMenu = Null /\ heroDiv = Null /\ footerYearSpan = Null
  /\ mobileBtn # Null /\ touch
  /\ ~thrown

\* C8: after a click on desktop link L, L carries the marker, no other link does and
\* the menu is as it was; a second click on L changes nothing.
C8_NavClickSwaps ==
  Is("navLinks.click") =>
     /\ ActiveLinks = {last.target}
     /\ mobileMenu = prevMenu
     /\ repeated => changed = {}

\* link 2 clicked twice in a row
C8_Witness ==
  /\ Is("navLinks.click") /\ last.target = 2 /\ repeated
  /\ ActiveLinks = {2}

\* C9: on a touch device no mousemove over the hero image changes its box-shadow.
C9_TouchNoHover ==
  (touch /\ Is("heroDiv.mousemove")) => El("heroDiv", 0) \notin changed

\* C10: starting with the menu hidden and no inline animation, the menu carries an
\* inline animation only while it is open.
C10_AnimationOnlyWhileOpen ==
  (mobileMenu # Null /\ mobileMenu.hidden) => mobileMenu.animation = ""

====
